---- MODULE Spec2Model ----
(***************************************************************************)
(* Model of packages/core/svelte/use-chat.ts: one useChat() instance, the  *)
(* exchanges started on it by append/reload/handleSubmit, and the          *)
(* environment they await (fetch, the response stream, user callbacks).    *)
(*                                                                         *)
(* JavaScript runs each handler to its next await without interleaving,    *)
(* so one action is one such run: from the event that resumes the code     *)
(* (a user call, a settled promise) to the next await or to settlement.    *)
(*                                                                         *)
(* Text is a sequence of one-character strings.  A response body is a      *)
(* sequence of bytes; the stream delivers it in chunks of 1..MaxChunk      *)
(* bytes, chosen freely at every read.                                     *)
(***************************************************************************)
EXTENDS Integers, Sequences, FiniteSets, TLC

VARIABLES
    messages,         \* the observable message list (SWR data cell)
    store,            \* store[key], the process-wide keyed copy
    error,            \* the observable error
    isLoading,        \* the observable loading flag
    abortController,  \* the hook's abortController variable: 0 is null, else a controller
    aborted,          \* the controllers whose signal is aborted
    input,            \* the input buffer
    ex,               \* the triggerRequest invocations, by index
    cfg,              \* the options useChat() was constructed with
    nextId,           \* nanoid(): the next fresh id
    clock,            \* new Date(): the current time
    requests,         \* the number of fetch() calls made so far
    lastWriter,       \* history: who called mutate last (0 = setMessages / nobody)
    ret,              \* history: what the last append/reload/handleSubmit call returned
    calls,            \* the number of calls the UI has made to the hook
    lastCall,         \* history: the operation the UI called last
    lastArg           \* history: the list it was called with, if it takes one

vars == <<messages, store, error, isLoading, abortController, aborted, input, ex,
          cfg, nextId, clock, requests, lastWriter, ret, calls, lastCall, lastArg>>

----------------------------------------------------------------------------
(* Bounds of the model *)

MaxEx == 2        \* triggerRequest invocations per behaviour
MaxRequests == 2  \* fetch calls per behaviour
MaxChunk == 2     \* bytes per delivered chunk
MaxCalls == 3     \* calls of the UI to the hook per behaviour

Exchanges == 1..MaxEx

----------------------------------------------------------------------------
(* Values *)

Undefined == [kind |-> "undefined", raw |-> <<>>, name |-> "", arguments |-> ""]
RawCall(s) == [kind |-> "string", raw |-> s, name |-> "", arguments |-> ""]
StructuredCall == [kind |-> "object", raw |-> <<>>, name |-> "f", arguments |-> "{}"]

Msg(id, at, role, content, fc) ==
    [id |-> id, createdAt |-> at, role |-> role, content |-> content, function_call |-> fc]

NoError == [name |-> "undefined", message |-> <<>>, isError |-> FALSE]
Err(name, message, isError) == [name |-> name, message |-> message, isError |-> isError]

AbortError == Err("AbortError", <<"aborted">>, TRUE)
NetworkError == Err("TypeError", <<"fetch failed">>, TRUE)
ReadError == Err("TypeError", <<"read failed">>, TRUE)
SyntaxError == Err("SyntaxError", <<"bad json">>, TRUE)
EmptyBodyError == Err("Error", <<"The response body is empty.">>, TRUE)
GenericMessage == <<"Failed to fetch the chat response.">>
\* what a user callback may throw: an Error, or any other value
CallbackErrors == {Err("Error", <<"callback">>, TRUE), Err("", <<"thrown value">>, FALSE)}

RetNone == [kind |-> "none", text |-> <<>>]
RetNull == [kind |-> "null", text |-> <<>>]
RetUndefined == [kind |-> "undefined", text |-> <<>>]
RetString(s) == [kind |-> "string", text |-> s]
\* the promise of a triggerRequest invocation
RetPromise == [kind |-> "promise", text |-> <<>>]

Last(s) == s[Len(s)]
Front(s) == SubSeq(s, 1, Len(s) - 1)

----------------------------------------------------------------------------
(* Text: the chunk decoder, the function-call prefix, JSON.parse *)

\* "e1" "e2" are the two bytes of the character "E"; every other byte is a
\* one-byte character.  A decoder state is the text so far and the carry.
DecodeByte(st, b) ==
    IF st.carry = <<>>
    THEN IF b = "e1" THEN [text |-> st.text, carry |-> <<b>>]
         ELSE IF b = "e2" THEN [text |-> Append(st.text, "?"), carry |-> <<>>]
         ELSE [text |-> Append(st.text, b), carry |-> <<>>]
    ELSE IF b = "e2" THEN [text |-> Append(st.text, "E"), carry |-> <<>>]
         ELSE IF b = "e1" THEN [text |-> Append(st.text, "?"), carry |-> <<b>>]
         ELSE [text |-> st.text \o <<"?", b>>, carry |-> <<>>]

RECURSIVE DecodeFrom(_, _)
DecodeFrom(st, bytes) ==
    IF bytes = <<>> THEN st
    ELSE DecodeFrom(DecodeByte(st, bytes[1]), SubSeq(bytes, 2, Len(bytes)))

\* decode(value) of createChunkDecoder(): the text this chunk contributes,
\* and the carry left for the next call
Decode(carry, chunk) == DecodeFrom([text |-> <<>>, carry |-> carry], chunk)

\* res.text(): the whole body decoded at once
BodyText(bytes) ==
    LET st == Decode(<<>>, bytes)
    IN  IF st.carry = <<>> THEN st.text ELSE Append(st.text, "?")

\* the literal '{"function_call":' as two characters
FunctionCallPrefix == <<"{", "fc:">>

StartsWith(s, p) == Len(s) >= Len(p) /\ SubSeq(s, 1, Len(p)) = p

StartsWithFunctionCall(s) == StartsWith(s, FunctionCallPrefix)

\* JSON.parse(text).function_call: the one well-formed document of the model
\* is {"function_call": <call>}; anything else is a SyntaxError
WellFormed(text) == text = <<"{", "fc:", "call}">>
ParsedFunctionCall(text) == StructuredCall

\* Response bodies of a 2xx response
PlainBody == <<"h", "e1", "e2">>
FcBody == <<"{", "fc:", "call}">>
BadFcBody == <<"{", "fc:">>
OkBodies == {<<>>, PlainBody, FcBody, BadFcBody}
\* Response bodies of a non-2xx response
FailBodies == {<<>>, <<"n", "o">>}

----------------------------------------------------------------------------
(* State of one triggerRequest invocation *)

IdleExchange ==
    [pc |-> "idle",          \* idle | fetch | onResponse | text | read | onFunctionCall | settled
     req |-> <<>>,           \* chatRequest.messages
     prev |-> <<>>,          \* previousMessages
     rounds |-> 0,           \* getStreamedResponse calls so far
     ok |-> TRUE,            \* res.ok
     hasBody |-> TRUE,       \* res.body is not null
     body |-> <<>>,          \* the bytes of the response body
     rest |-> <<>>,          \* the bytes not yet delivered
     carry |-> <<>>,         \* the decoder's carry buffer
     acc |-> <<>>,           \* streamedResponse
     rm |-> Msg(0, 0, "assistant", <<>>, Undefined),   \* responseMessage
     published |-> FALSE,    \* history: this engine call has called mutate
     first |-> <<>>,         \* history: the list it called mutate with first
     fetched |-> "no",       \* history: no | unpublished | published, as fetch was called
     fcMsgs |-> <<>>,        \* get(messages) as passed to onFunctionCall
     fcCalls |-> 0,          \* onFunctionCall invocations
     finished |-> 0,         \* onFinish invocations
     onErrorCalled |-> FALSE,
     thrown |-> NoError,     \* the value caught at line 271
     outcome |-> "none",     \* how the invocation settled
     result |-> RetNone]     \* what the promise resolved to

\* the locals of a getStreamedResponse call are gone once it has returned
NoCall(x) ==
    [x EXCEPT !.ok = TRUE, !.hasBody = TRUE, !.body = <<>>, !.rest = <<>>,
              !.carry = <<>>, !.acc = <<>>, !.rm = IdleExchange.rm,
              !.published = FALSE, !.first = <<>>, !.fetched = "no"]

\* the engine call in state x calls mutate(data)
Published(x, data) ==
    IF x.published THEN x ELSE [x EXCEPT !.published = TRUE, !.first = data]

\* a settled invocation keeps what it did, not what it held
Done(x) == [NoCall(x) EXCEPT !.req = <<>>, !.prev = <<>>, !.fcMsgs = <<>>]

\* the messages append is called with
UserMessages ==
    { Msg(90, 0, "user", <<"q">>, Undefined) }

\* the lists setMessages is called with
SetChoices ==
    { <<>>,
      << Msg(90, 0, "user", <<"q">>, Undefined),
         Msg(91, 0, "assistant", <<"a">>, Undefined) >> }

Inputs == { <<>>, <<"q">> }

\* the callbacks useChat() is given: each registered or not, every pair of
\* them in every combination
Options ==
    { [onFunctionCall |-> FALSE, onResponse |-> FALSE, onError |-> FALSE],
      [onFunctionCall |-> FALSE, onResponse |-> TRUE,  onError |-> TRUE],
      [onFunctionCall |-> TRUE,  onResponse |-> FALSE, onError |-> TRUE],
      [onFunctionCall |-> TRUE,  onResponse |-> TRUE,  onError |-> FALSE] }

\* what the onFunctionCall handler answers with: the list it was given plus
\* the function's result
FunctionResult(msgs) == msgs \o << Msg(92, 0, "function", <<"r">>, Undefined) >>

InFlight(e) == ex[e].pc \notin {"idle", "settled"}
Settled(e) == ex[e].pc = "settled"

----------------------------------------------------------------------------
(* Init *)

Init ==
    /\ messages = <<>>
    /\ store = <<>>
    /\ error = NoError
    /\ isLoading = FALSE
    /\ abortController = 0
    /\ aborted = {}
    /\ input = <<>>
    /\ ex = [e \in Exchanges |-> IdleExchange]
    /\ cfg \in Options
    /\ nextId = 1
    /\ clock = 1
    /\ requests = 0
    /\ lastWriter = 0
    /\ ret = RetNone
    /\ calls = 0
    /\ lastCall = "none"
    /\ lastArg = <<>>

----------------------------------------------------------------------------
(* triggerRequest: the catch and finally blocks, the return *)

\* a catch block that does not tell an abort from a failure
NoAbortCase(err) == FALSE

\* line 273: the caught value is an abort error
IsAbort(err) == err.name = "AbortError"

\* an onError call that does not look at what was thrown
AnyThrownValue(err) == cfg.onError

\* line 278: onError is invoked
InvokesOnError(err) == cfg.onError /\ err.isError

\* line 282: error.set(err), not reached for an abort error (return at 275)
ErrorAfterCatch(err) == IF IsAbort(err) THEN error ELSE err

\* line 274: abortController = null on an abort error
ControllerAfterCatch(err) == IF IsAbort(err) THEN 0 ELSE abortController

\* a triggerRequest without the finally block
NoFinally == isLoading

\* line 284: finally
LoadingAfterFinally == FALSE

\* line 270: get(messages).at(-1)?.content ?? ''
ReturnValue(msgs) ==
    IF msgs = <<>> THEN RetString(<<>>) ELSE RetString(Last(msgs).content)

\* The message state as one value: the SWR cell, store[key] (<<>> while
\* unset, else <<list>>), and who wrote last
View == [messages |-> messages, store |-> store, lastWriter |-> lastWriter]

\* a mutate that writes store[key] and leaves the SWR cell alone
StoreOnly(v, data, w) == [messages |-> v.messages, store |-> <<data>>, lastWriter |-> w]

\* lines 208-211: mutate(data), called by writer w
mutate(v, data, w) == [messages |-> data, store |-> <<data>>, lastWriter |-> w]

Commit(v) ==
    /\ messages' = v.messages
    /\ store' = v.store
    /\ lastWriter' = v.lastWriter

\* lines 271-285: invocation e, in state x, catches err with the message
\* state being v
Throw(e, x, err, how, v) ==
    /\ ex' = [ex EXCEPT ![e] =
                [Done(x) EXCEPT !.pc = "settled",
                          !.thrown = err,
                          !.outcome = how,
                          !.onErrorCalled = (~IsAbort(err) /\ InvokesOnError(err)),
                          !.result = IF IsAbort(err) THEN RetNull ELSE RetUndefined]]
    /\ error' = ErrorAfterCatch(err)
    /\ abortController' = ControllerAfterCatch(err)
    /\ isLoading' = LoadingAfterFinally
    /\ Commit(v)
    /\ UNCHANGED <<aborted, input, cfg, nextId, requests, ret, calls, lastCall, lastArg>>

\* lines 268-270, 284: invocation e leaves the loop and returns
Return(e, x, how, v) ==
    /\ ex' = [ex EXCEPT ![e] =
                [Done(x) EXCEPT !.pc = "settled", !.outcome = how,
                          !.result = ReturnValue(v.messages)]]
    /\ abortController' = 0
    /\ isLoading' = LoadingAfterFinally
    /\ Commit(v)
    /\ UNCHANGED <<error, aborted, input, cfg, nextId, requests, ret, calls, lastCall, lastArg>>

----------------------------------------------------------------------------
(* getStreamedResponse *)

\* an engine that calls fetch before it publishes the request's messages
FetchFirst(x, req, v) ==
    LET called == [NoCall(x) EXCEPT !.req = req, !.prev = v.messages,
                                    !.rounds = x.rounds + 1]
        sent == [called EXCEPT !.pc = "fetch", !.fetched = "unpublished"]
    IN  Published(sent, req)

\* lines 226-237, 69-101: the engine is called with request req; it publishes
\* req and calls fetch
Engine(x, req, v) ==
    LET called == [NoCall(x) EXCEPT !.req = req, !.prev = v.messages,
                                    !.rounds = x.rounds + 1]
        updated == Published(called, req)                           \* line 69
    IN  [updated EXCEPT !.pc = "fetch",                             \* line 71
                        !.fetched = IF updated.published THEN "published"
                                    ELSE "unpublished"]

\* line 62, 233: the abortControllerRef parameter of invocation e's engine
\* calls: the controller created at line 223, passed by value
AbortControllerRef(e) == e

\* lines 239-266: the engine returned x.rm to the loop of triggerRequest
AfterEngine(e, x, v) ==
    IF x.rm.function_call.kind \in {"undefined", "string"}
    THEN Return(e, x, "success", v)
    ELSE IF cfg.onFunctionCall
    THEN /\ ex' = [ex EXCEPT ![e] =
                     [x EXCEPT !.pc = "onFunctionCall", !.fcMsgs = v.messages,
                               !.fcCalls = x.fcCalls + 1]]
         /\ Commit(v)
         /\ UNCHANGED <<error, isLoading, abortController, aborted, input, cfg,
                        nextId, requests, ret, calls, lastCall, lastArg>>
    ELSE \* no handler: the loop runs again with the same chatRequest
         /\ ex' = [ex EXCEPT ![e] = Engine(x, x.req, v)]
         /\ Commit(mutate(v, x.req, e))
         /\ requests' = requests + 1
         /\ UNCHANGED <<error, isLoading, abortController, aborted, input, cfg,
                        nextId, ret, calls, lastCall, lastArg>>

\* an engine that restores the previous messages on every failure
RevertThenPropagate(v, x, e) == mutate(v, x.prev, e)

\* lines 111-113, 122-124, 140, 166: the failure leaves the engine with the
\* message state as it is
Propagate(v, x, e) == v

\* lines 163-177: the read loop was left
Complete(e, x, v) ==
    IF StartsWithFunctionCall(x.acc)
    THEN IF WellFormed(x.acc)
         THEN LET rm2 == [x.rm EXCEPT !.function_call = ParsedFunctionCall(x.acc)]
                  x2 == [Published(x, x.req \o <<rm2>>) EXCEPT
                            !.rm = rm2, !.finished = x.finished + 1]
              IN  AfterEngine(e, x2, mutate(v, x.req \o <<rm2>>, e))
         ELSE Throw(e, x, SyntaxError, "malformed", Propagate(v, x, e))
    ELSE AfterEngine(e, [x EXCEPT !.finished = x.finished + 1], v)

\* a failure path that leaves the optimistic update in place
NoRollback(v, x, e) == v

\* a read loop that keeps only the latest chunk
LatestChunkOnly(acc, text) == text

\* lines 103-104, 117-118: the previous messages are restored
Rollback(v, x, e) == mutate(v, x.prev, e)

\* line 145: streamedResponse += decode(value)
StreamedResponse(acc, text) == acc \o text

\* lines 116-137: the response res is checked and the reader set up
CheckResponse(e, x0, res, v) ==
    LET x == [x0 EXCEPT !.ok = res.ok, !.hasBody = res.hasBody,
                        !.body = res.body, !.rest = res.body]
    IN
    /\ (res.ok /\ res.body = FcBody) => (cfg.onFunctionCall \/ requests < MaxRequests)
    /\ IF ~x.ok
       THEN \* line 118, then the await of res.text()
            /\ ex' = [ex EXCEPT ![e] = [Published(x, x.prev) EXCEPT !.pc = "text"]]
            /\ Commit(Rollback(v, x, e))
            /\ UNCHANGED <<error, isLoading, abortController, aborted, input, cfg,
                           nextId, requests, ret, calls, lastCall, lastArg>>
       ELSE IF ~x.hasBody
       THEN Throw(e, x, EmptyBodyError, "emptyBody", Propagate(v, x, e))
       ELSE /\ ex' = [ex EXCEPT ![e] =
                        [x EXCEPT !.pc = "read", !.acc = <<>>, !.carry = <<>>,
                                  !.rm = Msg(nextId, clock, "assistant", <<>>, Undefined)]]
            /\ nextId' = nextId + 1
            /\ Commit(v)
            /\ UNCHANGED <<error, isLoading, abortController, aborted, input, cfg,
                           requests, ret, calls, lastCall, lastArg>>

----------------------------------------------------------------------------
(* The operations of the hook *)

\* lines 220-237: triggerRequest(chatRequest) up to the await of fetch, as
\* invocation e; r is what the caller returns
triggerRequest(e, req, r) ==
    /\ ex' = [ex EXCEPT ![e] = Engine(IdleExchange, req, View)]
    /\ isLoading' = TRUE
    /\ abortController' = e
    /\ Commit(mutate(View, req, e))
    /\ requests' = requests + 1
    /\ ret' = r
    /\ UNCHANGED <<error, aborted, cfg, clock>>

\* the next unused invocation
Fresh(e) == ex[e].pc = "idle" /\ \A d \in Exchanges : d < e => ex[d].pc # "idle"

\* lines 288-301: append(message, chatOptions) by a caller that returns r
appendCall(m, r) ==
    \E e \in Exchanges :
        /\ Fresh(e)
        /\ LET message == IF m.id = 0 THEN [m EXCEPT !.id = nextId] ELSE m
           IN  /\ nextId' = IF m.id = 0 THEN nextId + 1 ELSE nextId
               /\ triggerRequest(e, messages \o <<message>>, r)

append(m) ==
    /\ appendCall(m, RetPromise)
    /\ UNCHANGED input

\* a reload that resubmits whatever the last message is
AnyLastMessage(list) == TRUE

\* line 310: the last message is the assistant's
ShouldRegenerate(list) == Last(list).role = "assistant"

\* a reload that resubmits the whole history
ResubmitAll(list) == list

\* line 312: messagesSnapshot.slice(0, -1)
RegenerateRequest(list) == Front(list)

\* lines 303-320
reload ==
    IF Len(messages) = 0
    THEN /\ ret' = RetNull
         /\ UNCHANGED <<messages, store, error, isLoading, abortController, aborted,
                        input, ex, cfg, nextId, clock, requests, lastWriter>>
    ELSE IF ShouldRegenerate(messages)
    THEN \E e \in Exchanges :
            /\ Fresh(e)
            /\ triggerRequest(e, RegenerateRequest(messages), RetPromise)
            /\ UNCHANGED <<nextId, input>>
    ELSE /\ ret' = RetUndefined
         /\ UNCHANGED <<messages, store, error, isLoading, abortController, aborted,
                        input, ex, cfg, nextId, clock, requests, lastWriter>>

\* a stop that clears the reference without signalling the controller
ClearWithoutAbort ==
    /\ abortController' = 0
    /\ ret' = RetUndefined
    /\ UNCHANGED <<messages, store, error, isLoading, aborted, input, ex, cfg, nextId,
                   clock, requests, lastWriter>>

\* lines 322-327
stop ==
    /\ IF abortController # 0
       THEN /\ aborted' = aborted \cup {abortController}
            /\ abortController' = 0
       ELSE UNCHANGED <<aborted, abortController>>
    /\ ret' = RetUndefined
    /\ UNCHANGED <<messages, store, error, isLoading, input, ex, cfg, nextId, clock,
                   requests, lastWriter>>

\* lines 329-331
setMessages(list) ==
    /\ Commit(mutate(View, list, 0))
    /\ ret' = RetUndefined
    /\ UNCHANGED <<error, isLoading, abortController, aborted, input, ex, cfg, nextId,
                   clock, requests>>

\* input.set(value) by the UI
SetInput(value) ==
    /\ input # value
    /\ input' = value
    /\ ret' = RetUndefined
    /\ UNCHANGED <<messages, store, error, isLoading, abortController, aborted, ex, cfg,
                   nextId, clock, requests, lastWriter>>

\* a handleSubmit that submits whatever the input buffer holds
NoGuard(inputValue) == FALSE

\* line 341: !inputValue
NoInput(inputValue) == inputValue = <<>>

\* lines 335-350
handleSubmit ==
    IF NoInput(input)
    THEN /\ ret' = RetUndefined
         /\ UNCHANGED <<messages, store, error, isLoading, abortController, aborted,
                        input, ex, cfg, nextId, clock, requests, lastWriter>>
    ELSE /\ appendCall(Msg(0, clock, "user", input, Undefined), RetUndefined)
         /\ input' = <<>>

----------------------------------------------------------------------------
(* The awaited events: fetch, onResponse, res.text(), reader.read(),        *)
(* onFunctionCall.  A fetch made with an aborted signal rejects with an     *)
(* AbortError, and aborting errors the response's body stream, so that      *)
(* pending and later reads of it reject with an AbortError (Fetch standard).*)

Responses ==
    { [ok |-> TRUE, hasBody |-> TRUE, body |-> b] : b \in OkBodies }
    \cup { [ok |-> TRUE, hasBody |-> FALSE, body |-> <<>>] }
    \cup { [ok |-> FALSE, hasBody |-> TRUE, body |-> b] : b \in FailBodies }

\* line 71 resolves; lines 108-114 call onResponse if there is one.  What
\* the response holds is settled when the code first looks at it.
fetchResolve(e, res) ==
    /\ ex[e].pc = "fetch"
    /\ e \notin aborted
    /\ clock' = clock + 1
    /\ IF cfg.onResponse
       THEN /\ ex' = [ex EXCEPT ![e].pc = "onResponse"]
            /\ UNCHANGED <<messages, store, error, isLoading, abortController,
                           aborted, input, cfg, nextId, requests, lastWriter, ret, calls, lastCall, lastArg>>
       ELSE CheckResponse(e, ex[e], res, View)

\* lines 102-106: fetch rejects
fetchReject(e) ==
    /\ ex[e].pc = "fetch"
    /\ Throw(e, ex[e], IF e \in aborted THEN AbortError ELSE NetworkError, "network",
             Rollback(View, ex[e], e))
    /\ UNCHANGED clock

\* line 110: onResponse returns
onResponseReturn(e, res) ==
    /\ ex[e].pc = "onResponse"
    /\ CheckResponse(e, ex[e], res, View)
    /\ UNCHANGED clock

\* lines 111-113: onResponse throws
onResponseThrow(e, err) ==
    /\ ex[e].pc = "onResponse"
    /\ Throw(e, ex[e], err, "onResponse", Propagate(View, ex[e], e))
    /\ UNCHANGED clock

\* line 119: res.text() settles
textSettle(e) ==
    /\ ex[e].pc = "text"
    /\ LET text == BodyText(ex[e].body)
           err == IF e \in aborted THEN AbortError
                  ELSE Err("Error", IF text = <<>> THEN GenericMessage ELSE text, TRUE)
       IN  Throw(e, ex[e], err, "status", View)
    /\ UNCHANGED clock

\* lines 140-161: reader.read() resolves with a chunk of n bytes
readChunk(e, n) ==
    /\ ex[e].pc = "read"
    /\ e \notin aborted
    /\ n <= Len(ex[e].rest)
    /\ UNCHANGED clock
    /\ LET x == ex[e]
           d == Decode(x.carry, SubSeq(x.rest, 1, n))
           acc == StreamedResponse(x.acc, d.text)
           rm == IF StartsWithFunctionCall(acc)
                 THEN [x.rm EXCEPT !.function_call = RawCall(acc)]
                 ELSE [x.rm EXCEPT !.content = acc]
           x2 == [Published(x, x.req \o <<rm>>) EXCEPT
                     !.rest = SubSeq(x.rest, n + 1, Len(x.rest)),
                     !.carry = d.carry, !.acc = acc, !.rm = rm]
           v == mutate(View, x.req \o <<rm>>, e)
       IN  IF AbortControllerRef(e) = 0
           THEN Complete(e, x2, v)
           ELSE /\ ex' = [ex EXCEPT ![e] = x2]
                /\ Commit(v)
                /\ UNCHANGED <<error, isLoading, abortController, aborted, input, cfg,
                               nextId, requests, ret, calls, lastCall, lastArg>>

\* lines 140-143: reader.read() resolves with done
readDone(e) ==
    /\ ex[e].pc = "read"
    /\ e \notin aborted
    /\ ex[e].rest = <<>>
    /\ Complete(e, ex[e], View)
    /\ UNCHANGED clock

\* line 140: reader.read() rejects
readReject(e) ==
    /\ ex[e].pc = "read"
    /\ Throw(e, ex[e], IF e \in aborted THEN AbortError ELSE ReadError, "read",
             Propagate(View, ex[e], e))
    /\ UNCHANGED clock

\* a loop that sends the request it was started with again
SameChatRequest(chatRequest, response) == chatRequest

\* line 264: chatRequest = onFunctionCallResponse
NextChatRequest(chatRequest, response) == response

\* lines 254-264: onFunctionCall returns: a ChatRequest if again, else nothing
onFunctionCallReturn(e, again) ==
    /\ ex[e].pc = "onFunctionCall"
    /\ UNCHANGED clock
    /\ IF again
       THEN /\ requests < MaxRequests
            /\ LET chatRequest == NextChatRequest(ex[e].req, FunctionResult(ex[e].fcMsgs))
               IN  /\ ex' = [ex EXCEPT ![e] = Engine(ex[e], chatRequest, View)]
                   /\ Commit(mutate(View, chatRequest, e))
            /\ requests' = requests + 1
            /\ UNCHANGED <<error, isLoading, abortController, aborted, input, cfg,
                           nextId, ret, calls, lastCall, lastArg>>
       ELSE Return(e, ex[e], "handlerBreak", View)

----------------------------------------------------------------------------
\* a call of the UI to the hook
Call(name, arg, op) ==
    /\ calls < MaxCalls
    /\ calls' = calls + 1
    /\ lastCall' = name
    /\ lastArg' = arg
    /\ op

Next ==
    \/ \E m \in UserMessages : Call("append", <<>>, append(m))
    \/ Call("reload", <<>>, reload)
    \/ Call("stop", <<>>, stop)
    \/ \E list \in SetChoices : Call("setMessages", list, setMessages(list))
    \/ \E value \in Inputs : Call("input.set", <<>>, SetInput(value))
    \/ Call("handleSubmit", <<>>, handleSubmit)
    \/ \E e \in Exchanges, res \in Responses : fetchResolve(e, res)
    \/ \E e \in Exchanges : fetchReject(e)
    \/ \E e \in Exchanges, res \in Responses : onResponseReturn(e, res)
    \/ \E e \in Exchanges, err \in CallbackErrors : onResponseThrow(e, err)
    \/ \E e \in Exchanges : textSettle(e)
    \/ \E e \in Exchanges, n \in 1..MaxChunk : readChunk(e, n)
    \/ \E e \in Exchanges : readDone(e)
    \/ \E e \in Exchanges : readReject(e)
    \/ \E e \in Exchanges, again \in BOOLEAN : onFunctionCallReturn(e, again)

Spec == Init /\ [][Next]_vars

----------------------------------------------------------------------------
(* Steps and states the properties speak of *)

\* invocation e takes a step
Steps(e) == ex'[e] # ex[e]

\* invocation e settles in this step
Settles(e) == ex[e].pc # "settled" /\ ex'[e].pc = "settled"

\* the UI calls stop() in this step
StopStep == calls' # calls /\ lastCall' = "stop"

\* s is a prefix of t
IsPrefix(s, t) == Len(s) <= Len(t) /\ SubSeq(t, 1, Len(s)) = s

----------------------------------------------------------------------------
(* C1: stop() while an exchange is reading the response stream: the       *)
(* exchange's controller is aborted, and the exchange's next step is its    *)
(* settlement: it applies no further chunk to the message list, sets        *)
(* isLoading to false, does not set the error, and resolves to null.        *)
C1_StopHaltsStream ==
    [][\A e \in Exchanges :
         /\ (StopStep /\ abortController = e /\ ex[e].pc = "read") => e \in aborted'
         /\ (ex[e].pc = "read" /\ e \in aborted /\ Steps(e)) =>
               /\ ex'[e].pc = "settled"
               /\ ex'[e].result = RetNull
               /\ isLoading' = FALSE
               /\ error' = error
               /\ messages' = messages]_vars

C1_Witness ==
    \E e \in Exchanges :
        /\ ex[e].pc = "settled" /\ ex[e].outcome = "read" /\ IsAbort(ex[e].thrown)
        /\ ex[e].result = RetNull
        /\ messages # <<>> /\ Last(messages).role = "assistant"
        /\ Last(messages).content = <<"h">>
        /\ ~isLoading /\ error = NoError

----------------------------------------------------------------------------
(* C2: a network failure or a non-2xx status republishes the list as it   *)
(* was before the engine was invoked and sets the error; for a non-2xx      *)
(* status the error message is the body text, or the generic message when   *)
(* the text is empty.  The list at settlement is that list unless someone   *)
(* else has written since.                                                  *)
C2_RollbackOnFailure ==
    [][\A e \in Exchanges :
         /\ (ex[e].pc # "text" /\ ex'[e].pc = "text") =>
               (messages' = ex'[e].prev /\ lastWriter' = e)
         /\ (Settles(e) /\ ex'[e].outcome \in {"network", "status"}
                        /\ ~IsAbort(ex'[e].thrown)) =>
               /\ error' = ex'[e].thrown
               /\ error'.isError /\ error' # NoError
               /\ lastWriter' = e => messages' = ex[e].prev
               /\ ex'[e].outcome = "network" => lastWriter' = e
               /\ (ex'[e].outcome = "status" /\ ex[e].body = <<"n", "o">>) =>
                     error'.message = <<"n", "o">>
               /\ (ex'[e].outcome = "status" /\ ex[e].body = <<>>) =>
                     error'.message = GenericMessage]_vars

C2_Witness ==
    \E e \in Exchanges :
        /\ ex[e].pc = "settled" /\ ex[e].outcome = "status"
        /\ error = Err("Error", <<"n", "o">>, TRUE)
        /\ lastWriter = e /\ messages = <<>> /\ store = << <<>> >>
        /\ calls = 1

----------------------------------------------------------------------------
(* C3: a response whose text is a complete function-call document: while  *)
(* the accumulated text begins with the prefix, function_call is the raw    *)
(* text and content is empty; when the stream has completed, the last       *)
(* message has the structured call and empty content.                       *)
C3_FunctionCallAnySplit ==
    [][\A e \in Exchanges :
         /\ (ex'[e].pc = "read" /\ ex'[e].body = FcBody
               /\ StartsWithFunctionCall(ex'[e].acc)) =>
               /\ ex'[e].rm.function_call = RawCall(ex'[e].acc)
               /\ ex'[e].rm.content = <<>>
         /\ (ex[e].pc = "read" /\ ex[e].body = FcBody /\ ex[e].rest = <<>>
               /\ e \notin aborted /\ Steps(e) /\ ~(Settles(e) /\ ex'[e].outcome = "read")) =>
               /\ lastWriter' = e
               /\ LET final == IF ex'[e].pc = "fetch" THEN ex'[e].prev ELSE messages'
                  IN  /\ final # <<>>
                      /\ Last(final).function_call = StructuredCall
                      /\ Last(final).content = <<>>]_vars

----------------------------------------------------------------------------
(* C4: a plain-text response: the list published after each chunk is the  *)
(* request's messages followed by one assistant message whose content is    *)
(* the text of all bytes delivered so far, with the id and creation time    *)
(* the message was given when the stream started; content only grows.       *)
Delivered(x) == SubSeq(x.body, 1, Len(x.body) - Len(x.rest))

C4_ChunksAccumulate ==
    [][\A e \in Exchanges :
         (ex[e].pc = "read" /\ ex'[e].pc = "read" /\ Steps(e)
            /\ ~StartsWithFunctionCall(BodyText(ex[e].body))) =>
            /\ Len(ex'[e].rest) < Len(ex[e].rest)
            /\ messages' = ex[e].req \o
                  << Msg(ex[e].rm.id, ex[e].rm.createdAt, "assistant",
                         Decode(<<>>, Delivered(ex'[e])).text, Undefined) >>
            /\ IsPrefix(ex[e].rm.content, Last(messages').content)
            /\ Len(ex'[e].rest) = 0 => Last(messages').content = BodyText(ex[e].body)
            /\ ex[e].rm.id # 0 /\ ex[e].rm.createdAt # 0]_vars

C4_Witness ==
    \E e \in Exchanges :
        /\ ex[e].pc = "read" /\ ex[e].body = PlainBody /\ ex[e].rest = <<>>
        /\ messages = ex[e].req \o <<ex[e].rm>>
        /\ ex[e].rm.content = <<"h", "E">>
        /\ ex[e].rm.createdAt < clock

----------------------------------------------------------------------------
(* C5: whenever an invocation of triggerRequest settles, by whatever path, *)
(* isLoading is set to false.                                               *)
C5_LoadingClearedOnSettle ==
    [][\A e \in Exchanges : Settles(e) => isLoading' = FALSE]_vars

C5_Witness ==
    \E e \in Exchanges :
        /\ ex[e].pc = "settled" /\ ex[e].outcome = "malformed"
        /\ ~isLoading /\ error = SyntaxError

----------------------------------------------------------------------------
(* C6: isLoading is true exactly when at least one exchange is in flight.  *)
C6_LoadingIffInFlight ==
    isLoading <=> (\E e \in Exchanges : InFlight(e))

----------------------------------------------------------------------------
(* C7: starting a new exchange resets the error to undefined.              *)
C7_ErrorClearedOnStart ==
    [][\A e \in Exchanges :
         (ex[e].pc = "idle" /\ ex'[e].pc # "idle") => error' = NoError]_vars

----------------------------------------------------------------------------
(* C8: when the engine returns a structured call and no onFunctionCall     *)
(* handler is registered, no further request is issued and the exchange     *)
(* settles with isLoading false.                                            *)
C8_NoHandlerTerminates ==
    [][\A e \in Exchanges :
         (~cfg.onFunctionCall /\ ex[e].pc = "read" /\ ex[e].rest = <<>>
             /\ ex[e].rm.function_call = RawCall(FcBody) /\ Steps(e)) =>
            /\ requests' = requests
            /\ ex'[e].pc = "settled"
            /\ isLoading' = FALSE]_vars

----------------------------------------------------------------------------
----------------------------------------------------------------------------
(* C10: reload() on an empty history, or on a history whose last message   *)
(* is the user's, issues no request and leaves the message list, isLoading  *)
(* and error unchanged; in the user-last case it returns undefined.         *)
ReloadStep == calls' # calls /\ lastCall' = "reload"

----------------------------------------------------------------------------
----------------------------------------------------------------------------
(* C12: when the engine returns a message whose function_call is undefined *)
(* or a raw string, triggerRequest leaves the loop and the promise of       *)
(* append/reload resolves to the content of that returned message, for      *)
(* every response, a stream of zero chunks included.                        *)
C12_ResolvesToReturnedContent ==
    [][\A e \in Exchanges :
         (ex[e].pc = "read" /\ Steps(e) /\ ex[e].rest = <<>> /\ e \notin aborted
            /\ ex'[e].thrown = NoError
            /\ ex[e].rm.function_call.kind \in {"undefined", "string"}
            /\ ~StartsWithFunctionCall(ex[e].acc)) =>
            /\ Settles(e) /\ ex'[e].outcome = "success"
            /\ requests' = requests
            /\ ex'[e].result = RetString(ex[e].rm.content)]_vars

----------------------------------------------------------------------------
(* C13: handleSubmit with an empty input buffer issues no request and      *)
(* leaves messages and input unchanged; with a non-empty input it starts an *)
(* exchange whose request messages are the current history followed by a    *)
(* new user message whose content is the input, and clears the input.       *)
HandleSubmitStep == calls' # calls /\ lastCall' = "handleSubmit"

C13_HandleSubmit ==
    [][HandleSubmitStep =>
         IF input = <<>>
         THEN /\ requests' = requests /\ ex' = ex
              /\ messages' = messages /\ store' = store
              /\ input' = input
              /\ isLoading' = isLoading /\ error' = error
         ELSE \E e \in Exchanges :
                 /\ ex[e].pc = "idle" /\ ex'[e].pc = "fetch"
                 /\ Len(ex'[e].req) = Len(messages) + 1
                 /\ Front(ex'[e].req) = messages
                 /\ Last(ex'[e].req).role = "user"
                 /\ Last(ex'[e].req).content = input
                 /\ Last(ex'[e].req).createdAt = clock
                 /\ Last(ex'[e].req).id = nextId
                 /\ \A i \in 1..Len(messages) : messages[i].id # nextId
                 /\ messages' = ex'[e].req
                 /\ requests' = requests + 1
                 /\ isLoading'
                 /\ input' = <<>>]_vars

C13_Witness ==
    /\ lastCall = "handleSubmit" /\ calls = 3
    /\ input = <<>>
    /\ ex[1].pc = "fetch" /\ ex[1].req = messages
    /\ Len(messages) = 3
    /\ messages[2].role = "assistant"
    /\ messages[3].role = "user" /\ messages[3].content = <<"q">>
    /\ messages[3].createdAt > 0 /\ messages[3].id = 1

----------------------------------------------------------------------------
(* C14: setMessages(X) makes the observable message list exactly X, in any *)
(* state, issues no request and changes neither isLoading nor error.        *)
SetMessagesStep == calls' # calls /\ lastCall' = "setMessages"

C14_SetMessagesReplaces ==
    [][SetMessagesStep =>
         /\ messages' = lastArg'
         /\ store' = <<lastArg'>>
         /\ requests' = requests /\ ex' = ex
         /\ isLoading' = isLoading
         /\ error' = error
         /\ abortController' = abortController /\ aborted' = aborted]_vars

C14_Witness ==
    /\ lastCall = "setMessages" /\ lastArg = <<>> /\ messages = <<>>
    /\ store = << <<>> >>
    /\ isLoading /\ error # NoError
    /\ \E e \in Exchanges : ex[e].pc = "read" /\ ex[e].acc # <<>>

----------------------------------------------------------------------------
(* C15: at most one exchange is in flight at any time: no two              *)
(* triggerRequest invocations of the hook are unsettled together.           *)
C15_OneExchangeInFlight ==
    \A d, e \in Exchanges : (InFlight(d) /\ InFlight(e)) => d = e

----------------------------------------------------------------------------
(* C16: when an exchange fails because onResponse throws, because the      *)
(* response has no body, because a read fails, or because the completed     *)
(* function-call text is not valid JSON, the message list is not reverted:  *)
(* it stays as it was, which is the optimistic update followed by whatever  *)
(* partial message has been published, unless someone else wrote since.     *)
C16_NoRollbackOtherFailures ==
    [][\A e \in Exchanges :
         (Settles(e) /\ ex'[e].outcome \in {"onResponse", "emptyBody", "read", "malformed"}) =>
            /\ messages' = messages /\ store' = store /\ lastWriter' = lastWriter
            /\ (lastWriter = e /\ ex[e].pc = "read" /\ Len(ex[e].rest) < Len(ex[e].body)) =>
                  messages' = ex[e].req \o <<ex[e].rm>>
            /\ (lastWriter = e /\ ~(ex[e].pc = "read" /\ Len(ex[e].rest) < Len(ex[e].body))) =>
                  messages' = ex[e].req
            /\ ~IsAbort(ex'[e].thrown) => error' = ex'[e].thrown]_vars

C16_Witness ==
    /\ calls = 1 /\ lastCall = "append"
    /\ ex[1].pc = "settled" /\ ex[1].outcome = "read" /\ ex[1].thrown = ReadError
    /\ error = ReadError /\ lastWriter = 1
    /\ Len(messages) = 2
    /\ messages[1] = Msg(90, 0, "user", <<"q">>, Undefined)
    /\ messages[2].role = "assistant" /\ messages[2].content = <<"h">>

----------------------------------------------------------------------------
(* C17: in every engine invocation the first publication to the message    *)
(* list is the request's messages, made before the network request is       *)
(* issued; no other publication of that invocation precedes it.             *)
EngineCalled(e) == ex'[e].rounds = ex[e].rounds + 1

C17_OptimisticUpdateFirst ==
    [][\A e \in Exchanges :
         /\ EngineCalled(e) =>
               /\ ex'[e].pc = "fetch"
               /\ ex'[e].published /\ ex'[e].first = ex'[e].req
               /\ ex'[e].fetched = "published"
               /\ messages' = ex'[e].req /\ store' = <<ex'[e].req>>
               /\ lastWriter' = e
               /\ requests' = requests + 1
         /\ (InFlight(e) /\ ex'[e].pc # "settled") =>
               /\ ex'[e].first = ex'[e].req
               /\ ex'[e].fetched = "published"
         /\ (~EngineCalled(e) /\ Steps(e)) => requests' = requests]_vars

C17_Witness ==
    \E e \in Exchanges :
        /\ ex[e].pc = "read" /\ ex[e].rounds = 2 /\ ex[e].acc # <<>>
        /\ cfg.onFunctionCall
        /\ ex[e].first = ex[e].req /\ ex[e].fetched = "published"
        /\ Last(ex[e].req).role = "function"
        /\ messages = ex[e].req \o <<ex[e].rm>>
        /\ requests = 2

----------------------------------------------------------------------------
(* C18: when the engine returns a structured call and an onFunctionCall    *)
(* handler is registered, the handler is invoked once with the current      *)
(* message list and that call; if it returns nothing the exchange ends      *)
(* without a further request, otherwise the engine is invoked again with    *)
(* exactly the request the handler returned; no step taken while the        *)
(* exchange is in its round trips clears isLoading, other than the          *)
(* settlement of an invocation, so that isLoading is true throughout the    *)
(* round trips of an exchange that runs alone.                              *)
C18_FunctionCallRoundTrips ==
    [][\A e \in Exchanges :
         /\ (cfg.onFunctionCall /\ ex[e].pc = "read" /\ ex[e].body = FcBody
               /\ ex[e].rest = <<>> /\ e \notin aborted /\ Steps(e)
               /\ ex'[e].thrown = NoError) =>
               /\ ex'[e].pc = "onFunctionCall"
               /\ ex'[e].fcCalls = ex[e].fcCalls + 1
               /\ ex'[e].fcMsgs = messages'
               /\ ex'[e].rm.function_call = StructuredCall
               /\ requests' = requests
         /\ (ex[e].pc = "onFunctionCall" /\ Steps(e)) =>
               \/ /\ Settles(e) /\ ex'[e].outcome = "handlerBreak"
                  /\ requests' = requests
               \/ /\ EngineCalled(e)
                  /\ ex'[e].req = FunctionResult(ex[e].fcMsgs)
                  /\ ex'[e].fcCalls = ex[e].fcCalls
                  /\ requests' = requests + 1
         /\ (isLoading /\ InFlight(e) /\ ex'[e].pc # "settled"
               /\ \A d \in Exchanges : ~Settles(d)) => isLoading'
         /\ (ex'[e].pc = "onFunctionCall" /\ \A d \in Exchanges \ {e} : ex'[d].pc = "idle") =>
               isLoading']_vars

C18_Witness ==
    /\ cfg.onFunctionCall /\ calls = 1 /\ requests = 2
    /\ ex[1].pc = "settled" /\ ex[1].outcome = "success"
    /\ ex[1].rounds = 2 /\ ex[1].fcCalls = 1
    /\ Len(messages) = 4
    /\ messages[2].function_call = StructuredCall
    /\ messages[3].role = "function"
    /\ messages[4].role = "assistant" /\ messages[4].content = <<"h", "E">>
    /\ ~isLoading

----------------------------------------------------------------------------
----------------------------------------------------------------------------
(* C20: whenever at least one exchange is in flight, stop() cancels every  *)
(* in-flight exchange: the signal of each is aborted, each settles with     *)
(* null and applies no further chunk to the message list.                   *)
C20_StopCancelsAll ==
    [][\A e \in Exchanges :
         /\ (StopStep /\ InFlight(e)) => e \in aborted'
         /\ (e \in aborted /\ Settles(e)) => ex'[e].result = RetNull
         /\ (e \in aborted /\ ex[e].pc = "read" /\ Steps(e)) => messages' = messages]_vars

====
